---- MODULE Spec2Model ----
(***************************************************************************)
(* A model of package kktemplate (goth-kktemplate): the Engine of          *)
(* src/unnamed/part_000 with its three template caches, its locks, the     *)
(* memoised frame validation and the three-tier path resolution, run by    *)
(* concurrent callers over a file system and an environment that change.   *)
(*                                                                         *)
(* Go strings are sequences of atoms (<<"h", "-", "z">> is "h-z"), so that *)
(* concatenation, strings.Split and fmt.Sprintf are computed, not assumed. *)
(***************************************************************************)
EXTENDS Integers, Sequences, FiniteSets, TLC

VARIABLES
    files,                  \* the file system: canonical path -> content, or NoFile
    wlog,                   \* the files written or removed and the setters called, in order
    env,                    \* the process environment: APP_DEBUG, KKAPP_DEBUG
    templateRootPath,       \* per engine: Engine.templateRootPath / TemplateRootPath
    structTemplateFrames,   \* per engine: Engine.structTemplateFrames / StructTemplateFrames
    funcMap,                \* per engine: Engine.funcMap / FuncMap
    htmlTemplateMap,        \* per engine: *Engine.htmlTemplateMap
    frameHtmlTemplateMap,   \* per engine: *Engine.frameHtmlTemplateMap
    textTemplateMap,        \* per engine: *Engine.textTemplateMap
    htmlLocker,             \* per engine: holder of Engine.htmlLocker, or Free
    textLocker,             \* per engine: holder of Engine.textLocker, or Free
    frameLocker,            \* per engine: holder of Engine.frameLocker, or Free
    frameExist,             \* per engine: *Engine.frameExist
    th,                     \* per caller (goroutine): where it is in its call, and its locals
    hist,                   \* the calls that returned, in order: what was asked, what came back
    calls,                  \* how many load calls were started
    envSteps,               \* how many steps the environment (files, setters, setenv) took
    probe                   \* the last application of a pure function: its input and result

vars == <<files, wlog, env, templateRootPath, structTemplateFrames, funcMap,
          htmlTemplateMap, frameHtmlTemplateMap, textTemplateMap,
          htmlLocker, textLocker, frameLocker, frameExist,
          th, hist, calls, envSteps, probe>>

engineVars == <<templateRootPath, structTemplateFrames, funcMap,
                htmlTemplateMap, frameHtmlTemplateMap, textTemplateMap,
                htmlLocker, textLocker, frameLocker, frameExist>>

-----------------------------------------------------------------------------
(* Strings *)

Str(a) == <<a>>

\* nil: no error
Nil == <<>>

\* nil: no template
NoTmpl == [by |-> 0, name |-> <<>>, set |-> <<>>, funcs |-> <<>>, srcs |-> {}]
NoFile == <<<<"nofile">>>>
Free == 0

\* strings.Split(s, sep) for a one-atom separator: the pieces between separators.
RECURSIVE SplitFrom(_, _, _, _)
SplitFrom(s, sep, i, cur) ==
    IF i > Len(s) THEN <<cur>>
    ELSE IF s[i] = sep THEN <<cur>> \o SplitFrom(s, sep, i + 1, <<>>)
    ELSE SplitFrom(s, sep, i + 1, Append(cur, s[i]))

Split(s, sep) == SplitFrom(s, sep, 1, <<>>)

\* name + "-" + lang
MapName(name, lang) == name \o <<"-">> \o lang

\* fmt.Sprintf("%s/%s/%s.tmpl", root, lang, name)
TmplPath(root, lang, name) == root \o <<"/">> \o lang \o <<"/">> \o name \o <<".tmpl">>

\* fmt.Sprintf("%s/default/%s.tmpl", root, name)
DefaultTmplPath(root, name) == root \o <<"/", "default", "/">> \o name \o <<".tmpl">>

\* filepath.Base(path): the last piece of the path
Base(path) == LET ps == Split(path, "/") IN ps[Len(ps)]

-----------------------------------------------------------------------------
(* The file system *)

\* The file a path names: its non-empty pieces ("R//h.tmpl" and "R/h.tmpl" are one file).
Canon(path) == SelectSeq(Split(path, "/"), LAMBDA seg : seg # <<>>)

RootR == Str("R")
RootQ == Str("Q")

Hello == Str("h")
HelloZh == <<"h", "-", "z">>
LangZhTW == <<"z", "-", "T">>
LangZh == Str("z")
LangTW == Str("T")
LangEmpty == <<>>
DefaultDir == Str("default")

\* Engine.structTemplateFrames as New() and the package set it
DefaultFrames ==
    <<Str("_main"), Str("_header_content"), Str("_header_claim"),
      Str("_footer_content"), Str("_footer_claim")>>

Range(f) == {f[i] : i \in DOMAIN f}

FileNames == {Hello, HelloZh}
FileDirs == {LangZhTW, LangZh, LangTW, DefaultDir, <<>>}

\* Every file of the model's file system: the pages {root}/{dir}/{name}.tmpl and
\* {root}/{name}.tmpl, the frames under default, one frame under a language and
\* directly under the root, and one page under a second root.
FilePaths ==
    {Canon(TmplPath(RootR, d, n)) : d \in FileDirs, n \in FileNames}
        \cup {Canon(TmplPath(RootR, DefaultDir, f)) : f \in Range(DefaultFrames)}
        \cup {Canon(TmplPath(RootR, LangZh, Str("_main"))),
              Canon(TmplPath(RootR, <<>>, Str("_main"))),
              Canon(TmplPath(RootQ, DefaultDir, Hello))}

\* os.Stat(path): err with !os.IsNotExist(err), i.e. the file is there.
StatExists(path) ==
    LET p == Canon(path) IN p \in DOMAIN files /\ files[p] # NoFile

\* The version of a file: when it was last written or removed (0: never)
FileVer(p) ==
    LET at == {i \in 1..Len(wlog) : wlog[i] = p}
    IN IF at = {} THEN 0 ELSE CHOOSE i \in at : \A j \in at : j <= i

\* os.ReadFile(path): the content, or NoFile when os.IsNotExist(err).
ReadFile(path) ==
    LET p == Canon(path) IN IF p \in DOMAIN files THEN files[p] ELSE NoFile

-----------------------------------------------------------------------------
(* Path resolution *)

Engines == {"default", "e1"}

templateRootPathValue(e) == templateRootPath[e]

\* The base language: the piece before the first "-", or "" when lang has no "-".
MainLang(lang) ==
    LET slang == Split(lang, "-") IN IF Len(slang) > 1 THEN slang[1] ELSE <<>>

getRealTemplatePath(e, name, lang) ==
    LET root == templateRootPathValue(e)
        p1 == TmplPath(root, lang, name)
        p2 == TmplPath(root, MainLang(lang), name)
        p3 == DefaultTmplPath(root, name)
    IN  IF StatExists(p1) THEN p1
        ELSE IF StatExists(p2) THEN p2
        ELSE IF StatExists(p3) THEN p3
        ELSE <<>>

-----------------------------------------------------------------------------
(* Templates: what html/template and text/template do with a source *)

\* A template source is a sequence of items: Lit(a) for literal text,
\* TmplRef(n) for {{template "n"}}, FuncCall(f) for {{f}}, BadSyntax for text
\* the parser rejects.
Lit(a) == <<"lit", a>>
TmplRef(n) == <<"tmpl", n>>
FuncCall(f) == <<"call", f>>
BadSyntax == <<"bad">>

ErrTemplateNotFound == <<"template file not found">>
ErrInvalidEngine == <<"invalid engine">>

\* The parser's error for a source: a syntax error, or a call of a function the
\* function table does not define; Nil when the source compiles.
ParseError(src, funcs) ==
    IF \E i \in 1..Len(src) : src[i] = BadSyntax
        THEN <<"parse error", "syntax">>
    ELSE IF \E i \in 1..Len(src) : src[i][1] = "call" /\ src[i][2] \notin DOMAIN funcs
        THEN <<"parse error", "function not defined">>
    ELSE Nil

funcMapValue(e) == funcMap[e]

\* A function table of the built-in alone (what the C10 check must notice)
BuiltinFuncMap(e, lang) == [k \in {"T"} |-> <<"T">> \o lang]

\* The built-in "T" (the translation of lang), then every override on top of it.
generateHTMLFuncMap(e, lang) ==
    LET fm == funcMapValue(e) IN
    [k \in {"T"} \cup DOMAIN fm |-> IF k \in DOMAIN fm THEN fm[k] ELSE <<"T">> \o lang]

generateTEXTFuncMap(e, lang) ==
    LET fm == funcMapValue(e) IN
    [k \in {"T"} \cup DOMAIN fm |-> IF k \in DOMAIN fm THEN fm[k] ELSE <<"T">> \o lang]

\* html.New(name).Funcs(funcs).Parse(src): one template, named name, with src as
\* its body. by is the call that compiled it (a new instance per compilation),
\* from the files and versions it was read from.
ParseString(by, name, src, funcs, from) ==
    [by |-> by, name |-> name, set |-> (name :> src), funcs |-> funcs, srcs |-> from]

\* html.New(name).Funcs(funcs).ParseFiles(paths...): every file becomes a member
\* named by its base name (a later file of the same base name replaces an earlier
\* one); the handle keeps the name it was created with.
RECURSIVE FileSet(_, _)
FileSet(paths, i) ==
    IF i = 0 THEN <<>>
    ELSE LET rest == FileSet(paths, i - 1)
             b == Base(paths[i])
         IN [n \in DOMAIN rest \cup {b} |-> IF n = b THEN ReadFile(paths[i]) ELSE rest[n]]

\* ParseFiles fails on the first file it cannot open or parse.
ParseFilesError(paths, funcs) ==
    LET badAt == {i \in 1..Len(paths) :
                    \/ ReadFile(paths[i]) = NoFile
                    \/ ParseError(ReadFile(paths[i]), funcs) # Nil}
    IN  IF badAt = {} THEN Nil
        ELSE LET i == CHOOSE j \in badAt : \A k \in badAt : j <= k
             IN IF ReadFile(paths[i]) = NoFile THEN <<"open error">> \o paths[i]
                ELSE ParseError(ReadFile(paths[i]), funcs)

ParseFiles(by, name, paths, funcs) ==
    [by |-> by, name |-> name, set |-> FileSet(paths, Len(paths)), funcs |-> funcs,
     srcs |-> {<<Canon(paths[i]), FileVer(Canon(paths[i]))>> : i \in 1..Len(paths)}]

ExecError == <<<<"exec error">>>>
MaxDepth == 3

\* t.ExecuteTemplate(w, n, nil): the output of member n, or ExecError when n is
\* not a member with a body or a template it refers to is not.
RECURSIVE Render(_, _, _)
RECURSIVE RenderItems(_, _, _, _)
RenderItems(tm, src, i, depth) ==
    IF i > Len(src) THEN <<>>
    ELSE LET head == IF src[i][1] = "tmpl" THEN Render(tm, src[i][2], depth - 1)
                     ELSE IF src[i][1] = "call" THEN <<tm.funcs[src[i][2]]>>
                     ELSE <<Str(src[i][2])>>
             tail == RenderItems(tm, src, i + 1, depth)
         IN IF head = ExecError \/ tail = ExecError THEN ExecError ELSE head \o tail

Render(tm, n, depth) ==
    IF depth = 0 \/ n \notin DOMAIN tm.set THEN ExecError
    ELSE RenderItems(tm, tm.set[n], 1, depth)

ExecuteTemplate(tm, n) == Render(tm, n, MaxDepth)

\* t.Execute(w, nil): the handle's own template.
Execute(tm) == ExecuteTemplate(tm, tm.name)

-----------------------------------------------------------------------------
(* The environment toggle *)

\* strings.ToUpper on the values the environment takes
ToUpper(v) ==
    CASE v \in {"true", "True", "TRUE"} -> "TRUE"
      [] v \in {"false", "FALSE"} -> "FALSE"
      [] OTHER -> v

\* A toggle read from KKAPP_DEBUG alone (what the C13 check must notice)
IsDebugOneName == ToUpper(env.KKAPP_DEBUG) = "TRUE"

IsDebug ==
    LET v == IF env.APP_DEBUG = "" THEN env.KKAPP_DEBUG ELSE env.APP_DEBUG
    IN ToUpper(v) = "TRUE"

-----------------------------------------------------------------------------
(* The caches and their locks *)

NumThreads == 2
Threads == 1..NumThreads

MaxCalls == 2
MaxEnvSteps == 2

\* m[k] of a Go map: nil when k is not a key
\* A map that never finds an entry (what the C2 check must notice)
MapGetMiss(m, k) == NoTmpl

\* m[k]: nil when there is no entry
MapGet(m, k) == IF k \in DOMAIN m THEN m[k] ELSE NoTmpl

\* A delete that leaves the entry (what the C3 check must notice)
MapDeleteNone(m, k) == m

\* delete(m, k)
MapDelete(m, k) == [x \in DOMAIN m \ {k} |-> m[x]]

\* m[k] = v
MapPut(m, k, v) == [x \in DOMAIN m \cup {k} |-> IF x = k THEN v ELSE m[x]]

\* The cache a load operation works on
CacheOf(e, op) ==
    CASE op = "html" -> htmlTemplateMap[e]
      [] op = "frame" -> frameHtmlTemplateMap[e]
      [] op = "text" -> textTemplateMap[e]

\* A store into a cache all engines share, as if New() handed out the package's
\* maps (what the C11 check must notice)
SetCacheShared(e, op, m) ==
    /\ htmlTemplateMap' =
           IF op = "html" THEN [f \in Engines |-> m] ELSE htmlTemplateMap
    /\ frameHtmlTemplateMap' =
           IF op = "frame" THEN [f \in Engines |-> m] ELSE frameHtmlTemplateMap
    /\ textTemplateMap' =
           IF op = "text" THEN [f \in Engines |-> m] ELSE textTemplateMap

\* The cache of op becomes m; the other caches stay.
SetCache(e, op, m) ==
    /\ htmlTemplateMap' =
           IF op = "html" THEN [htmlTemplateMap EXCEPT ![e] = m] ELSE htmlTemplateMap
    /\ frameHtmlTemplateMap' =
           IF op = "frame" THEN [frameHtmlTemplateMap EXCEPT ![e] = m]
           ELSE frameHtmlTemplateMap
    /\ textTemplateMap' =
           IF op = "text" THEN [textTemplateMap EXCEPT ![e] = m] ELSE textTemplateMap

\* One lock asked for by every load, LoadText included (what the C15 check must
\* notice)
LockOfOne(e, op) == htmlLocker[e]

\* The lock a load operation takes around its cache: LoadHtml and LoadFrameHtml
\* take htmlLocker, LoadText takes textLocker.
LockOf(e, op) == IF op = "text" THEN textLocker[e] ELSE htmlLocker[e]

SetLock(e, op, holder) ==
    /\ htmlLocker' = IF op = "text" THEN htmlLocker ELSE [htmlLocker EXCEPT ![e] = holder]
    /\ textLocker' = IF op = "text" THEN [textLocker EXCEPT ![e] = holder] ELSE textLocker

caches == <<htmlTemplateMap, frameHtmlTemplateMap, textTemplateMap>>
config == <<templateRootPath, structTemplateFrames, funcMap>>
world == <<files, wlog, env, envSteps>>

Idle ==
    [pc |-> "idle", e |-> "default", op |-> "html", name |-> <<>>, lang |-> <<>>,
     cno |-> 0, since |-> 0, began |-> 0, debug |-> FALSE, overlap |-> FALSE, had |-> 0,
     ended |-> 0, diag |-> <<>>,
     tmplPath |-> <<>>, parsed |-> NoTmpl, ret |-> NoTmpl, err |-> Nil]

\* The caller returns (tmpl, err); parsed, the template it compiled itself, if any,
\* goes out of scope with the call but is kept for the record, as is ended, the
\* place of this return among all returns.
\* diag: the error diagnostics the call has logged (kklogger.ErrorJ).
ReturnLogged(t, tmpl, err, diag) ==
    /\ th' = [th EXCEPT ![t].pc = "done", ![t].ret = tmpl, ![t].err = err,
                        ![t].tmplPath = <<>>, ![t].ended = Len(hist) + 1,
                        ![t].diag = diag]
    /\ hist' = Append(hist, [e |-> th[t].e, op |-> th[t].op, name |-> th[t].name,
                             lang |-> th[t].lang, by |-> tmpl.by,
                             overlap |-> th[t].overlap])

Return(t, tmpl, err) == ReturnLogged(t, tmpl, err, th[t].diag)

Goto(t, pc) == th' = [th EXCEPT ![t].pc = pc] /\ UNCHANGED hist

\* Two calls are loads of the same key when they go to the same cache of the same
\* engine with the same mapName.
SameKey(c, d) ==
    c.e = d.e /\ c.op = d.op /\ MapName(c.name, c.lang) = MapName(d.name, d.lang)

InFlight(t) == th[t].pc \notin {"idle", "done"}

-----------------------------------------------------------------------------
(* LoadHtml, LoadText, LoadFrameHtml, step by step *)

\* An engine that was not made by New() or newDefaultEngine(): the nil *Engine,
\* &Engine{} with every field nil, and engines built field by field that lack the
\* frame lock or the frame flag. The pointer fields of an Engine are never
\* assigned after construction, so which of them are nil is a fact about the
\* engine, not a part of the state.
NilEngine == "nil"
PointerFields ==
    {"htmlTemplateMap", "frameHtmlTemplateMap", "textTemplateMap",
     "htmlLocker", "textLocker", "frameLocker", "frameExist"}

NilFields(e) ==
    CASE e = "zero" -> PointerFields
      [] e = "noFrameLock" -> {"frameLocker"}
      [] e = "noFlag" -> {"frameExist"}
      [] OTHER -> {}

\* The cache map and the lock a load operation names in its first test
MapField(op) ==
    CASE op = "html" -> "htmlTemplateMap"
      [] op = "frame" -> "frameHtmlTemplateMap"
      [] op = "text" -> "textTemplateMap"

LockField(op) == IF op = "text" THEN "textLocker" ELSE "htmlLocker"

\* if e == nil || e.<map> == nil || e.<locker> == nil
InvalidEngine(e, op) ==
    e = NilEngine \/ MapField(op) \in NilFields(e) \/ LockField(op) \in NilFields(e)

\* frameExistValidate: if e == nil || e.frameExist == nil || e.frameLocker == nil
InvalidFrameState(e) ==
    e = NilEngine \/ "frameExist" \in NilFields(e) \/ "frameLocker" \in NilFields(e)

\* Load*(name, lang) on an engine that fails the first test:
\* return nil, fmt.Errorf("invalid engine")
CallInvalid(t, e, op, name, lang) ==
    /\ th[t].pc \in {"idle", "done"}
    /\ \A u \in Threads : u < t => th[u].pc # "idle"
    /\ InvalidEngine(e, op)
    /\ calls' = calls + 1
    /\ th' = [th EXCEPT ![t] = [Idle EXCEPT !.pc = "done", !.e = e, !.op = op,
                                            !.name = name, !.lang = lang,
                                            !.cno = calls + 1, !.since = Len(wlog),
                                            !.began = Len(hist),
                                            !.ended = Len(hist) + 1,
                                            !.err = ErrInvalidEngine]]
    /\ hist' = Append(hist, [e |-> e, op |-> op, name |-> name, lang |-> lang,
                             by |-> 0, overlap |-> FALSE])
    /\ UNCHANGED <<world, engineVars, probe>>
\* A caller enters Load*(name, lang): it builds the key and reads the debug toggle.
\* For the record: since, began, overlap, and had, the instance under the key now.
\* Callers are numbered in the order of their first calls.
Call(t, e, op, name, lang) ==
    /\ th[t].pc \in {"idle", "done"}
    /\ \A u \in Threads : u < t => th[u].pc # "idle"
    /\ ~InvalidEngine(e, op)
    /\ calls' = calls + 1
    /\ LET c == [Idle EXCEPT !.pc = IF IsDebug THEN "evictLock" ELSE "lookupLock",
                             !.e = e, !.op = op, !.name = name, !.lang = lang,
                             !.cno = calls + 1, !.since = Len(wlog),
                             !.began = Len(hist), !.debug = IsDebug,
                             !.had = MapGet(CacheOf(e, op), MapName(name, lang)).by]
           meets == {u \in Threads \ {t} : InFlight(u) /\ SameKey(th[u], c)}
       IN  th' = [u \in Threads |->
                    IF u = t THEN [c EXCEPT !.overlap = meets # {}]
                    ELSE IF u \in meets THEN [th[u] EXCEPT !.overlap = TRUE]
                    ELSE th[u]]
    /\ UNCHANGED <<world, engineVars, hist, probe>>

\* A Lock() that does not wait: the caller goes on into the critical section
\* while another caller is inside (what the C23 check must notice)
LockCacheNoWait(t) ==
    LET c == th[t] IN
    /\ c.pc \in {"evictLock", "lookupLock", "commitLock"}
    /\ SetLock(c.e, c.op, t)
    /\ Goto(t, CASE c.pc = "evictLock" -> "evict"
                 [] c.pc = "lookupLock" -> "lookup"
                 [] c.pc = "commitLock" -> "commit")
    /\ UNCHANGED <<world, config, caches, frameLocker, frameExist, calls, probe>>
\* locker.Lock() before the eviction, the lookup or the commit
LockCache(t) ==
    LET c == th[t] IN
    /\ c.pc \in {"evictLock", "lookupLock", "commitLock"}
    /\ LockOf(c.e, c.op) = Free
    /\ SetLock(c.e, c.op, t)
    /\ Goto(t, CASE c.pc = "evictLock" -> "evict"
                 [] c.pc = "lookupLock" -> "lookup"
                 [] c.pc = "commitLock" -> "commit")
    /\ UNCHANGED <<world, config, caches, frameLocker, frameExist, calls, probe>>

\* An eviction that deletes nothing: the lock is taken and released (what the
\* C25 check must notice)
EvictNothing(t) ==
    LET c == th[t] IN
    /\ c.pc = "evict"
    /\ SetLock(c.e, c.op, Free)
    /\ Goto(t, "lookupLock")
    /\ UNCHANGED <<world, config, caches, frameLocker, frameExist, calls, probe>>
\* debug mode: delete(map, mapName); locker.Unlock()
Evict(t) ==
    LET c == th[t] IN
    /\ c.pc = "evict"
    /\ SetCache(c.e, c.op, MapDelete(CacheOf(c.e, c.op), MapName(c.name, c.lang)))
    /\ SetLock(c.e, c.op, Free)
    /\ Goto(t, "lookupLock")
    /\ UNCHANGED <<world, config, frameLocker, frameExist, calls, probe>>

\* A lookup that keeps the lock on a miss, so that the path is resolved and the
\* file read and parsed under it (what the C14 check must notice)
LookupKeepingLock(t) ==
    LET c == th[t]
        tmpl == MapGet(CacheOf(c.e, c.op), MapName(c.name, c.lang))
    IN
    /\ c.pc = "lookup"
    /\ IF tmpl # NoTmpl THEN SetLock(c.e, c.op, Free) /\ Return(t, tmpl, Nil)
       ELSE /\ Goto(t, IF c.op = "frame" THEN "validateLock" ELSE "resolve")
            /\ UNCHANGED <<htmlLocker, textLocker>>
    /\ UNCHANGED <<world, config, caches, frameLocker, frameExist, calls, probe>>

\* A lookup that returns what it finds without the test for nil (what the C24
\* check must notice)
LookupUntested(t) ==
    LET c == th[t]
        tmpl == MapGet(CacheOf(c.e, c.op), MapName(c.name, c.lang))
    IN
    /\ c.pc = "lookup"
    /\ SetLock(c.e, c.op, Free)
    /\ Return(t, tmpl, Nil)
    /\ UNCHANGED <<world, config, caches, frameLocker, frameExist, calls, probe>>
\* tmpl := map[mapName]; locker.Unlock(); if tmpl != nil { return tmpl, nil }
Lookup(t) ==
    LET c == th[t]
        tmpl == MapGet(CacheOf(c.e, c.op), MapName(c.name, c.lang))
    IN
    /\ c.pc = "lookup"
    /\ SetLock(c.e, c.op, Free)
    /\ IF tmpl # NoTmpl THEN Return(t, tmpl, Nil)
       ELSE Goto(t, IF c.op = "frame" THEN "validateLock" ELSE "resolve")
    /\ UNCHANGED <<world, config, caches, frameLocker, frameExist, calls, probe>>

\* e.getRealTemplatePath(name, lang); LoadFrameHtml returns on "".
Resolve(t) ==
    LET c == th[t]
        path == getRealTemplatePath(c.e, c.name, c.lang)
    IN
    /\ c.pc = "resolve"
    /\ IF c.op = "frame" /\ path = <<>> THEN Return(t, NoTmpl, ErrTemplateNotFound)
       ELSE /\ th' = [th EXCEPT ![t].tmplPath = path,
                                ![t].pc = IF c.op = "frame" THEN "readPage" ELSE "read"]
            /\ UNCHANGED hist
    /\ UNCHANGED <<world, engineVars, calls, probe>>

\* A load that caches its miss: when the file is not there it stores an empty
\* template under the key (what the C16 check must notice)
ReadCachingMiss(t) ==
    LET c == th[t]
        data == ReadFile(c.tmplPath)
        funcs == IF c.op = "text" THEN generateTEXTFuncMap(c.e, c.lang)
                 ELSE generateHTMLFuncMap(c.e, c.lang)
        err == ParseError(data, funcs)
        p == Canon(c.tmplPath)
        k == MapName(c.name, c.lang)
    IN
    /\ c.pc = "read"
    /\ IF data = NoFile
         THEN /\ Return(t, NoTmpl, ErrTemplateNotFound)
              /\ SetCache(c.e, c.op, MapPut(CacheOf(c.e, c.op), k,
                                            ParseString(c.cno, k, <<>>, funcs, {})))
       ELSE IF err # Nil THEN Return(t, NoTmpl, err) /\ UNCHANGED caches
       ELSE /\ th' = [th EXCEPT ![t].pc = "commitLock",
                                ![t].parsed = ParseString(c.cno, k, data, funcs,
                                                          {<<p, FileVer(p)>>})]
            /\ UNCHANGED <<hist, caches>>
    /\ UNCHANGED <<world, config, htmlLocker, textLocker, frameLocker, frameExist,
                   calls, probe>>

\* A load that remembers its failure: what it could not parse is stored under
\* the key all the same (what the C7 check must notice)
ReadKeepingFailure(t) ==
    LET c == th[t]
        data == ReadFile(c.tmplPath)
        funcs == IF c.op = "text" THEN generateTEXTFuncMap(c.e, c.lang)
                 ELSE generateHTMLFuncMap(c.e, c.lang)
        err == ParseError(data, funcs)
        p == Canon(c.tmplPath)
        parsed == ParseString(c.cno, MapName(c.name, c.lang), data, funcs,
                              {<<p, FileVer(p)>>})
    IN
    /\ c.pc = "read"
    /\ IF data = NoFile
         THEN Return(t, NoTmpl, ErrTemplateNotFound) /\ UNCHANGED caches
       ELSE IF err # Nil
         THEN /\ Return(t, NoTmpl, err)
              /\ SetCache(c.e, c.op, MapPut(CacheOf(c.e, c.op), MapName(c.name, c.lang), parsed))
       ELSE /\ th' = [th EXCEPT ![t].pc = "commitLock", ![t].parsed = parsed]
            /\ UNCHANGED <<hist, caches>>
    /\ UNCHANGED <<world, config, htmlLocker, textLocker, frameLocker, frameExist,
                   calls, probe>>

\* LoadHtml and LoadText: os.ReadFile of the resolved path, then Parse.
Read(t) ==
    LET c == th[t]
        data == ReadFile(c.tmplPath)
        funcs == IF c.op = "text" THEN generateTEXTFuncMap(c.e, c.lang)
                 ELSE generateHTMLFuncMap(c.e, c.lang)
        err == ParseError(data, funcs)
        p == Canon(c.tmplPath)
    IN
    /\ c.pc = "read"
    /\ IF data = NoFile THEN Return(t, NoTmpl, ErrTemplateNotFound)
       ELSE IF err # Nil THEN Return(t, NoTmpl, err)
       ELSE /\ th' = [th EXCEPT ![t].pc = "commitLock",
                                ![t].parsed = ParseString(c.cno, MapName(c.name, c.lang),
                                                          data, funcs, {<<p, FileVer(p)>>})]
            /\ UNCHANGED hist
    /\ UNCHANGED <<world, engineVars, calls, probe>>

\* frameExistValidate on an engine without frame lock or frame flag returns false
\* before it locks anything, and LoadFrameHtml returns ErrTemplateNotFound.
ValidateInvalid(t) ==
    LET c == th[t] IN
    /\ c.pc = "validateLock"
    /\ InvalidFrameState(c.e)
    /\ Return(t, NoTmpl, ErrTemplateNotFound)
    /\ UNCHANGED <<world, engineVars, calls, probe>>
\* frameExistValidate: e.frameLocker.Lock()
LockFrame(t) ==
    LET c == th[t] IN
    /\ c.pc = "validateLock"
    /\ ~InvalidFrameState(c.e)
    /\ frameLocker[c.e] = Free
    /\ frameLocker' = [frameLocker EXCEPT ![c.e] = t]
    /\ Goto(t, "validate")
    /\ UNCHANGED <<world, config, caches, htmlLocker, textLocker, frameExist, calls, probe>>

structTemplateFramesValue(e) == structTemplateFrames[e]

\* The frames frameExistValidate finds no file for
MissingFrames(e) ==
    LET frames == structTemplateFramesValue(e) IN
    {i \in 1..Len(frames) : getRealTemplatePath(e, frames[i], <<>>) = <<>>}

\* A validation that probes the frame files on every call, flag or no flag (what
\* the C12 check must notice)
frameExistProbeAlways(e) == MissingFrames(e) = {}

\* frameExistValidate under frameLocker: true at once when the flag is set, else
\* every frame is resolved with lang "" and the flag is set when none is missing.
frameExistValidate(e) == frameExist[e] \/ MissingFrames(e) = {}

\* A LoadFrameHtml that goes on whatever the validation said (what the C6 check
\* must notice)
ValidateAndGoOn(t) ==
    LET c == th[t] IN
    /\ c.pc = "validate"
    /\ frameExist' = [frameExist EXCEPT ![c.e] = frameExistValidate(c.e)]
    /\ frameLocker' = [frameLocker EXCEPT ![c.e] = Free]
    /\ Goto(t, "resolve")
    /\ UNCHANGED <<world, config, caches, htmlLocker, textLocker, calls, probe>>

\* A validation that goes through the whole frame set and logs every frame it
\* finds no file for (what the C20 check must notice)
FrameDiagnosticsAll(e) ==
    LET frames == structTemplateFramesValue(e)
        missing == SelectSeq([i \in 1..Len(frames) |-> i], LAMBDA i : i \in MissingFrames(e))
    IN  IF frameExist[e] THEN <<>>
        ELSE [j \in 1..Len(missing) |->
                 templateRootPathValue(e) \o <<"/">> \o frames[missing[j]] \o <<".tmpl">>]

\* What frameExistValidate logs: nothing when the flag is set or every frame is
\* found; else "frame file {root}/{frame}.tmpl is not exist" for the first frame
\* it finds no file for, on which it returns.
FrameDiagnostics(e) ==
    LET frames == structTemplateFramesValue(e) IN
    IF frameExist[e] \/ MissingFrames(e) = {} THEN <<>>
    ELSE LET i == CHOOSE j \in MissingFrames(e) : \A k \in MissingFrames(e) : j <= k
         IN <<templateRootPathValue(e) \o <<"/">> \o frames[i] \o <<".tmpl">>>>

\* A validation without the deferred Unlock on the failing return: the frame
\* lock stays with the caller that found a frame missing (what the C22 check
\* must notice)
ValidateKeepingLock(t) ==
    LET c == th[t] IN
    /\ c.pc = "validate"
    /\ frameExist' = [frameExist EXCEPT ![c.e] = frameExistValidate(c.e)]
    /\ IF frameExistValidate(c.e)
         THEN /\ th' = [th EXCEPT ![t].pc = "resolve", ![t].diag = FrameDiagnostics(c.e)]
              /\ frameLocker' = [frameLocker EXCEPT ![c.e] = Free]
              /\ UNCHANGED hist
       ELSE /\ ReturnLogged(t, NoTmpl, ErrTemplateNotFound, FrameDiagnostics(c.e))
            /\ UNCHANGED frameLocker
    /\ UNCHANGED <<world, config, caches, htmlLocker, textLocker, calls, probe>>
\* The rest of frameExistValidate (the deferred Unlock included) and the branch
\* of LoadFrameHtml on its result.
Validate(t) ==
    LET c == th[t] IN
    /\ c.pc = "validate"
    /\ frameExist' = [frameExist EXCEPT ![c.e] = frameExistValidate(c.e)]
    /\ frameLocker' = [frameLocker EXCEPT ![c.e] = Free]
    /\ IF frameExistValidate(c.e)
         THEN /\ th' = [th EXCEPT ![t].pc = "resolve", ![t].diag = FrameDiagnostics(c.e)]
              /\ UNCHANGED hist
       ELSE ReturnLogged(t, NoTmpl, ErrTemplateNotFound, FrameDiagnostics(c.e))
    /\ UNCHANGED <<world, config, caches, htmlLocker, textLocker, calls, probe>>

\* LoadFrameHtml: os.ReadFile(tmplPath) only to see that the page is there
ReadPage(t) ==
    LET c == th[t] IN
    /\ c.pc = "readPage"
    /\ IF ReadFile(c.tmplPath) = NoFile THEN Return(t, NoTmpl, ErrTemplateNotFound)
       ELSE Goto(t, "parseFiles")
    /\ UNCHANGED <<world, engineVars, calls, probe>>

\* A file list of the page alone (what the C9 check must notice)
PageAlone(e, tmplPath, lang) == <<tmplPath>>

\* filePaths: the page, then every frame resolved for the requested lang
FramePaths(e, tmplPath, lang) ==
    LET frames == structTemplateFramesValue(e) IN
    <<tmplPath>> \o [i \in 1..Len(frames) |-> getRealTemplatePath(e, frames[i], lang)]

\* LoadFrameHtml: html.New(tmplPath).Funcs(...).ParseFiles(filePaths...)
ParseFrames(t) ==
    LET c == th[t]
        paths == FramePaths(c.e, c.tmplPath, c.lang)
        funcs == generateHTMLFuncMap(c.e, c.lang)
        err == ParseFilesError(paths, funcs)
    IN
    /\ c.pc = "parseFiles"
    /\ IF err # Nil THEN Return(t, NoTmpl, err)
       ELSE /\ th' = [th EXCEPT ![t].pc = "commitLock",
                                ![t].parsed = ParseFiles(c.cno, c.tmplPath, paths, funcs)]
            /\ UNCHANGED hist
    /\ UNCHANGED <<world, engineVars, calls, probe>>

\* A commit that finds an entry stored meanwhile and still returns its own
\* parse (what the C17 check must notice)
CommitReturningOwn(t) ==
    LET c == th[t]
        k == MapName(c.name, c.lang)
        existing == MapGet(CacheOf(c.e, c.op), k)
    IN
    /\ c.pc = "commit"
    /\ SetLock(c.e, c.op, Free)
    /\ Return(t, c.parsed, Nil)
    /\ IF existing # NoTmpl THEN UNCHANGED caches
       ELSE SetCache(c.e, c.op, MapPut(CacheOf(c.e, c.op), k, c.parsed))
    /\ UNCHANGED <<world, config, frameLocker, frameExist, calls, probe>>

\* A commit without the second look at the map: every caller stores and returns
\* its own parse (what the C4 check must notice)
CommitOwn(t) ==
    LET c == th[t] IN
    /\ c.pc = "commit"
    /\ SetLock(c.e, c.op, Free)
    /\ Return(t, c.parsed, Nil)
    /\ SetCache(c.e, c.op, MapPut(CacheOf(c.e, c.op), MapName(c.name, c.lang), c.parsed))
    /\ UNCHANGED <<world, config, frameLocker, frameExist, calls, probe>>

\* Under the lock: an entry stored meanwhile wins, else parsed is stored; Unlock.
Commit(t) ==
    LET c == th[t]
        k == MapName(c.name, c.lang)
        existing == MapGet(CacheOf(c.e, c.op), k)
    IN
    /\ c.pc = "commit"
    /\ SetLock(c.e, c.op, Free)
    /\ IF existing # NoTmpl
         THEN /\ Return(t, existing, Nil)
              /\ UNCHANGED caches
         ELSE /\ Return(t, c.parsed, Nil)
              /\ SetCache(c.e, c.op, MapPut(CacheOf(c.e, c.op), k, c.parsed))
    /\ UNCHANGED <<world, config, frameLocker, frameExist, calls, probe>>

-----------------------------------------------------------------------------
(* The environment: the file system, the setters, the debug toggle *)

V1 == <<Lit("v1")>>
V2 == <<Lit("v2")>>
Broken == <<BadSyntax>>
UseX == <<FuncCall("X")>>
UseT == <<FuncCall("T")>>
FrameF == <<Lit("F")>>
PageMain == <<Lit("page->"), TmplRef(<<"_main", ".tmpl">>)>>
PageMainBare == <<Lit("page->"), TmplRef(Str("_main"))>>

\* What wlog records for a setter of engine e: no file has such a path
FuncMapMark(e) == <<Str("FuncMap"), Str(e)>>
FramesMark(e) == <<Str("StructTemplateFrames"), Str(e)>>
RootMark(e) == <<Str("TemplateRootPath"), Str(e)>>

\* os.WriteFile(path, content)
WriteFile(p, content) ==
    /\ envSteps < MaxEnvSteps
    /\ files[p] # content
    /\ files' = [files EXCEPT ![p] = content]
    /\ wlog' = Append(wlog, p)
    /\ envSteps' = envSteps + 1
    /\ UNCHANGED <<env, engineVars, th, hist, calls, probe>>

\* os.Remove(path)
RemoveFile(p) ==
    /\ envSteps < MaxEnvSteps
    /\ files[p] # NoFile
    /\ files' = [files EXCEPT ![p] = NoFile]
    /\ wlog' = Append(wlog, p)
    /\ envSteps' = envSteps + 1
    /\ UNCHANGED <<env, engineVars, th, hist, calls, probe>>

\* os.Setenv(k, v)
Setenv(k, v) ==
    /\ envSteps < MaxEnvSteps
    /\ env[k] # v
    /\ env' = [env EXCEPT ![k] = v]
    /\ envSteps' = envSteps + 1
    /\ UNCHANGED <<files, wlog, engineVars, th, hist, calls, probe>>

SetTemplateRootPath(e, path) ==
    /\ envSteps < MaxEnvSteps
    /\ templateRootPath[e] # path
    /\ templateRootPath' = [templateRootPath EXCEPT ![e] = path]
    /\ wlog' = Append(wlog, RootMark(e))
    /\ envSteps' = envSteps + 1
    /\ UNCHANGED <<files, env, structTemplateFrames, funcMap, caches,
                   htmlLocker, textLocker, frameLocker, frameExist, th, hist, calls, probe>>

SetStructTemplateFrames(e, frames) ==
    /\ envSteps < MaxEnvSteps
    /\ structTemplateFrames[e] # frames
    /\ structTemplateFrames' = [structTemplateFrames EXCEPT ![e] = frames]
    /\ wlog' = Append(wlog, FramesMark(e))
    /\ envSteps' = envSteps + 1
    /\ UNCHANGED <<files, env, templateRootPath, funcMap, caches,
                   htmlLocker, textLocker, frameLocker, frameExist, th, hist, calls, probe>>

SetFuncMap(e, fm) ==
    /\ envSteps < MaxEnvSteps
    /\ funcMap[e] # fm
    /\ funcMap' = [funcMap EXCEPT ![e] = fm]
    /\ wlog' = Append(wlog, FuncMapMark(e))
    /\ envSteps' = envSteps + 1
    /\ UNCHANGED <<files, env, templateRootPath, structTemplateFrames, caches,
                   htmlLocker, textLocker, frameLocker, frameExist, th, hist, calls, probe>>

-----------------------------------------------------------------------------
(* Construction *)

PathOf(dir, name) == Canon(TmplPath(RootR, dir, name))

\* The five frame files under default
FrameFiles == [p \in {PathOf(DefaultDir, f) : f \in Range(DefaultFrames)} |-> FrameF]

\* A file system: the files of layout, nothing else
Layout(layout) == [p \in FilePaths |-> IF p \in DOMAIN layout THEN layout[p] ELSE NoFile]

NoProbe == [fn |-> "none"]

\* New() and newDefaultEngine(): the default root, the five frames, no function
\* overrides, empty caches, free locks, frames not validated; no caller is in a call.
EngineInit ==
    /\ templateRootPath = [e \in Engines |-> RootR]
    /\ structTemplateFrames = [e \in Engines |-> DefaultFrames]
    /\ funcMap = [e \in Engines |-> <<>>]
    /\ htmlTemplateMap = [e \in Engines |-> <<>>]
    /\ frameHtmlTemplateMap = [e \in Engines |-> <<>>]
    /\ textTemplateMap = [e \in Engines |-> <<>>]
    /\ htmlLocker = [e \in Engines |-> Free]
    /\ textLocker = [e \in Engines |-> Free]
    /\ frameLocker = [e \in Engines |-> Free]
    /\ frameExist = [e \in Engines |-> FALSE]
    /\ th = [t \in Threads |-> Idle]
    /\ calls = 0
    /\ envSteps = 0
    /\ hist = <<>>
    /\ probe = NoProbe
    /\ wlog = <<>>

-----------------------------------------------------------------------------
(* Path resolution on its own: every file system, every (name, lang) *)

ResolveLangs == {LangZhTW, LangZh, LangTW, LangEmpty, <<"-", "T">>}

ResolveProbe(e, name, lang) ==
    /\ probe' = [fn |-> "getRealTemplatePath", e |-> e, name |-> name, lang |-> lang,
                 path |-> getRealTemplatePath(e, name, lang)]
    /\ UNCHANGED <<world, engineVars, th, hist, calls>>

InitResolve ==
    /\ EngineInit
    /\ env = [APP_DEBUG |-> "", KKAPP_DEBUG |-> ""]
    /\ \E present \in SUBSET {PathOf(d, Hello) : d \in FileDirs} :
          files = [p \in FilePaths |-> IF p \in present THEN V1 ELSE NoFile]

NextResolve ==
    \E name \in {Hello}, lang \in ResolveLangs : ResolveProbe("default", name, lang)

SpecResolve == InitResolve /\ [][NextResolve]_vars

\* C1 as stated: whatever the file system and (name, lang), getRealTemplatePath
\* returns the exact-language path if that file exists, else the base-language
\* path (the language up to its first "-") if it exists, else the default path if
\* it exists, else the empty path; never a path outside these three tiers.
C1Claim ==
    probe.fn = "getRealTemplatePath" =>
        LET root == templateRootPath[probe.e]
            exact == TmplPath(root, probe.lang, probe.name)
            base == TmplPath(root, Split(probe.lang, "-")[1], probe.name)
            default == DefaultTmplPath(root, probe.name)
            tiers == <<exact, base, default>>
            found == {i \in 1..3 : StatExists(tiers[i])}
        IN  probe.path = IF found = {} THEN <<>>
                         ELSE tiers[CHOOSE i \in found : \A j \in found : i <= j]

-----------------------------------------------------------------------------
(* Debug mode off: loads of two colliding pairs while the page file changes *)

\* The loads of this scenario: (op, name, lang)
LoadsNoDebug ==
    {<<"html", Hello, LangZhTW>>, <<"html", HelloZh, LangTW>>,
     <<"text", Hello, LangZhTW>>, <<"frame", Hello, LangZhTW>>}

\* APP_DEBUG and KKAPP_DEBUG are unset; the frames and default/h.tmpl are there,
\* h-z.tmpl is under default or directly under the root.
InitNoDebug ==
    /\ EngineInit
    /\ env = [APP_DEBUG |-> "", KKAPP_DEBUG |-> ""]
    /\ \E d \in {DefaultDir, <<>>} :
          files = Layout(FrameFiles @@ (PathOf(DefaultDir, Hello) :> V1)
                                    @@ (PathOf(d, HelloZh) :> V1))

EnvNoDebug ==
    \/ WriteFile(PathOf(DefaultDir, Hello), V2)
    \/ RemoveFile(PathOf(DefaultDir, Hello))

StepNoDebug(t) ==
    \/ LockCache(t)
    \/ Lookup(t)
    \/ Resolve(t)
    \/ Read(t)
    \/ LockFrame(t)
    \/ Validate(t)
    \/ ReadPage(t)
    \/ ParseFrames(t)
    \/ Commit(t)

LoadNoDebug(t) ==
    /\ calls < MaxCalls
    /\ \E c \in LoadsNoDebug : Call(t, "default", c[1], c[2], c[3])

NextNoDebug ==
    \/ \E t \in Threads : LoadNoDebug(t) \/ StepNoDebug(t)
    \/ EnvNoDebug

SpecNoDebug == InitNoDebug /\ [][NextNoDebug]_vars

\* The instances returned by the loads of c's (name, lang) on c's cache that had
\* succeeded when c began
Prior(c) ==
    {hist[i].by : i \in {j \in 1..c.began :
        /\ hist[j].e = c.e /\ hist[j].op = c.op
        /\ hist[j].name = c.name /\ hist[j].lang = c.lang /\ hist[j].by # 0}}

\* The files of a template of which a later version is on record: they were
\* rewritten or removed after the template was compiled.
Changed(tmpl) == {s \in tmpl.srcs : FileVer(s[1]) > s[2]}

\* C2: with debug mode off, a load that begins after a load of the same
\* (name, lang) on the same cache has succeeded succeeds too and returns the
\* identical instance, whatever was done to the backing file in between.
C2Idempotent ==
    \A t \in Threads :
        LET c == th[t] IN
        (c.pc = "done" /\ ~c.debug /\ Prior(c) # {}) =>
            (c.err = Nil /\ Prior(c) = {c.ret.by})

\* C2 happens: a load returned the instance of an earlier load although the
\* file it was compiled from had been rewritten or removed before the load began.
C2Witness ==
    \E t \in Threads :
        LET c == th[t] IN
        /\ c.pc = "done" /\ ~c.debug /\ Prior(c) = {c.ret.by} /\ c.ret.by # c.cno
        /\ \E s \in Changed(c.ret) : \E i \in 1..c.since : i > s[2] /\ wlog[i] = s[1]

\* C4: with debug mode off, the loads of one key on one cache that succeed all
\* return one instance, the stored one; a caller whose own parse came second
\* discards it.
C4SingleWinner ==
    \A t \in Threads :
        LET c == th[t] IN
        (c.pc = "done" /\ ~c.debug /\ c.err = Nil) =>
            /\ c.ret = MapGet(CacheOf(c.e, c.op), MapName(c.name, c.lang))
            /\ \A u \in Threads :
                  (th[u].pc = "done" /\ th[u].err = Nil /\ SameKey(th[u], c))
                      => th[u].ret = c.ret

\* C4 happens: two callers parsed the same key in parallel from different
\* versions of the file, and the one that committed second returned the other's.
C4Witness ==
    \E t, u \in Threads :
        /\ t # u /\ th[t].pc = "done" /\ th[u].pc = "done" /\ SameKey(th[t], th[u])
        /\ th[t].parsed.by = th[t].cno /\ th[u].parsed.by = th[u].cno
        /\ th[t].parsed.srcs # th[u].parsed.srcs
        /\ th[t].ret = th[u].parsed /\ th[u].ret = th[u].parsed

\* The files a load of (name, lang) may read: the three paths getRealTemplatePath tries
Candidates(e, name, lang) ==
    LET root == templateRootPathValue(e) IN
    {Canon(TmplPath(root, lang, name)), Canon(TmplPath(root, MainLang(lang), name)),
     Canon(DefaultTmplPath(root, name))}

\* C8 as stated: the keys of distinct pairs differ, so a load of one pair never
\* returns the entry stored for another: what LoadHtml or LoadText returns was
\* compiled from a file of the pair asked for.
C8Claim ==
    \A t \in Threads :
        LET c == th[t] IN
        (c.pc = "done" /\ c.err = Nil /\ c.op # "frame") =>
            \A s \in c.ret.srcs : s[1] \in Candidates(c.e, c.name, c.lang)

\* C5 as stated: a load that found no cache entry while no file was there on any
\* of the three tiers (exact language, language up to the first "-", default)
\* returns ErrTemplateNotFound, and ErrTemplateNotFound is returned only when
\* no tier has a file or a frame is missing. Calls during which nothing changed.
C5Claim ==
    \A t \in Threads :
        LET c == th[t]
            root == templateRootPath[c.e]
            none == /\ ~StatExists(TmplPath(root, c.lang, c.name))
                    /\ ~StatExists(TmplPath(root, Split(c.lang, "-")[1], c.name))
                    /\ ~StatExists(DefaultTmplPath(root, c.name))
        IN
        (c.pc = "done" /\ c.since = Len(wlog)) =>
            /\ (none /\ c.ret.by \in {0, c.cno}) => c.err = ErrTemplateNotFound
            /\ c.err = ErrTemplateNotFound =>
                  (none \/ (c.op = "frame" /\ MissingFrames(c.e) # {}))

-----------------------------------------------------------------------------
(* Debug mode switched on and off while the page file is rewritten *)

Loads == {<<"html", Hello, LangZhTW>>, <<"text", Hello, LangZhTW>>}

\* APP_DEBUG is unset or "true"; default/h.tmpl is there.
Init ==
    /\ EngineInit
    /\ \E v \in {"", "true"} : env = [APP_DEBUG |-> v, KKAPP_DEBUG |-> ""]
    /\ files = Layout(PathOf(DefaultDir, Hello) :> V1)

Env ==
    \/ WriteFile(PathOf(DefaultDir, Hello), V2)
    \/ \E v \in {"", "true"} : Setenv("APP_DEBUG", v)

Load(t) ==
    /\ calls < MaxCalls
    /\ \E c \in Loads : Call(t, "default", c[1], c[2], c[3])

StepHtmlText(t) ==
    \/ LockCache(t)
    \/ Evict(t)
    \/ Lookup(t)
    \/ Resolve(t)
    \/ Read(t)
    \/ Commit(t)

Next ==
    \/ \E t \in Threads : Load(t) \/ StepHtmlText(t)
    \/ Env

Spec == Init /\ [][Next]_vars

\* The template a call returned was compiled from content that was still in the
\* file when the call began: no file of it was rewritten or removed between the
\* compilation and the beginning of the call.
Fresh(c) ==
    \A s \in c.ret.srcs : ~\E i \in 1..c.since : i > s[2] /\ wlog[i] = s[1]

-----------------------------------------------------------------------------
(* The override mapping replaced between loads *)

\* Override mappings: a function X, another X, an override of the built-in T
FmX1 == [X |-> Str("x1")]
FmX2 == [X |-> Str("x2")]
FmT == [T |-> Str("t2")]

\* Debug mode is on or off for good; default/h.tmpl calls T or X; the override
\* mapping is empty, as New() makes it (a template that calls X does not parse yet).
InitFunc ==
    /\ EngineInit
    /\ \E v \in {"", "TRUE"} : env = [APP_DEBUG |-> "", KKAPP_DEBUG |-> v]
    /\ \E src \in {UseT, UseX} : files = Layout(PathOf(DefaultDir, Hello) :> src)

EnvFunc == \E fm \in {FmX1, FmX2, FmT} : SetFuncMap("default", fm)

NextFunc ==
    \/ \E t \in Threads : Load(t) \/ StepHtmlText(t)
    \/ EnvFunc

SpecFunc == InitFunc /\ [][NextFunc]_vars

\* The override mapping of c's engine was not replaced after c began.
FuncMapSettled(c) == \A i \in (c.since + 1)..Len(wlog) : wlog[i] # FuncMapMark(c.e)

\* The built-in translation entry of lang with the overrides fm on top of it
Bound(fm, lang) ==
    [k \in {"T"} \cup DOMAIN fm |-> IF k \in DOMAIN fm THEN fm[k] ELSE <<"T">> \o lang]

\* C10 as stated: the function table is rebuilt on every load, so a load that
\* begins after the override mapping was replaced returns a template bound to
\* the new mapping (the built-in T, every override on top of it).
C10Claim ==
    \A t \in Threads :
        LET c == th[t] IN
        (c.pc = "done" /\ c.err = Nil /\ FuncMapSettled(c)) =>
            c.ret.funcs = Bound(funcMap[c.e], c.lang)

\* C10, amended: the function table is rebuilt on every load that compiles, so
\* the template a load compiled itself and returns is bound to the mapping that
\* is current at that load, the overrides replacing the built-in of their name.
C10Rebuilt ==
    \A t \in Threads :
        LET c == th[t] IN
        (c.pc = "done" /\ c.err = Nil /\ FuncMapSettled(c) /\ c.ret.by = c.cno) =>
            c.ret.funcs = Bound(funcMap[c.e], c.lang)

\* C10 happens: after a load had succeeded the mapping was replaced by one that
\* overrides T, and the next load compiled a template bound to the override.
C10Witness ==
    \E t \in Threads :
        LET c == th[t] IN
        /\ c.pc = "done" /\ c.err = Nil /\ c.ret.by = c.cno /\ Prior(c) # {}
        /\ \E i \in 1..c.since : wlog[i] = FuncMapMark(c.e)
        /\ c.ret.funcs["T"] = Str("t2")

-----------------------------------------------------------------------------
(* Loads that fail, and the loads after the file was created or fixed *)

MaxCallsRetry == 3

\* Debug mode is on or off for good; default/h.tmpl is missing, broken or good.
InitRetry ==
    /\ EngineInit
    /\ \E v \in {"", "TRUE"} : env = [APP_DEBUG |-> "", KKAPP_DEBUG |-> v]
    /\ \E src \in {NoFile, Broken, V1} : files = Layout(PathOf(DefaultDir, Hello) :> src)

EnvRetry == \E src \in {V2, Broken} : WriteFile(PathOf(DefaultDir, Hello), src)

LoadRetry(t) ==
    /\ calls < MaxCallsRetry
    /\ \E c \in Loads : Call(t, "default", c[1], c[2], c[3])

NextRetry ==
    \/ \E t \in Threads : LoadRetry(t) \/ StepHtmlText(t)
    \/ EnvRetry

SpecRetry == InitRetry /\ [][NextRetry]_vars

\* The loads of c's key that had returned when c began
Past(c) == {j \in 1..c.began : SameKey(hist[j], c)}

\* The latest of them, if any
LastPast(c) == CHOOSE j \in Past(c) : \A k \in Past(c) : k <= j

\* c is the next load of its key after a load that failed.
AfterFailure(c) == Past(c) # {} /\ hist[LastPast(c)].by = 0

\* The file c's (name, lang) resolves to is there and compiles.
Loadable(c) ==
    LET data == ReadFile(getRealTemplatePath(c.e, c.name, c.lang))
    IN  data # NoFile /\ ParseError(data, Bound(funcMap[c.e], c.lang)) = Nil

\* A load that failed returned no template, left nothing of its own in its cache
\* and returned ErrTemplateNotFound or the parser's error as the parser made it.
FailedClean(c) ==
    /\ c.ret = NoTmpl
    /\ \A k \in DOMAIN CacheOf(c.e, c.op) : CacheOf(c.e, c.op)[k].by # c.cno
    /\ \/ c.err = ErrTemplateNotFound
       \/ \E src \in {V1, V2, Broken} : c.err = ParseError(src, Bound(funcMap[c.e], c.lang))

\* C7 as stated: a load that fails stores nothing and returns the parse error
\* unchanged; once the file is there and compiles, the next load of the key
\* after a failure succeeds and returns a template of the new content (loads
\* during which no file changed).
C7Claim ==
    \A t \in Threads :
        LET c == th[t] IN
        c.pc = "done" =>
            /\ c.err # Nil => FailedClean(c)
            /\ (AfterFailure(c) /\ c.since = Len(wlog) /\ Loadable(c)) =>
                  (c.err = Nil /\ Fresh(c))

\* C7, amended: the same, the new content being promised only when neither the
\* failed load nor the load after it overlapped another load of the key.
C7NotCached ==
    \A t \in Threads :
        LET c == th[t] IN
        c.pc = "done" =>
            /\ c.err # Nil => FailedClean(c)
            /\ (AfterFailure(c) /\ c.since = Len(wlog) /\ Loadable(c)) =>
                  /\ c.err = Nil
                  /\ (~c.overlap /\ ~hist[LastPast(c)].overlap) =>
                        (c.ret.by = c.cno /\ Fresh(c))

\* C7 happens: with debug mode off a load failed, the file was then written, and
\* the next load of the key, neither of them overlapped, returned a template
\* compiled from the new content.
C7Witness ==
    \E t \in Threads :
        LET c == th[t] IN
        /\ c.pc = "done" /\ ~c.debug /\ c.err = Nil /\ AfterFailure(c)
        /\ ~c.overlap /\ ~hist[LastPast(c)].overlap
        /\ c.since = Len(wlog) /\ Loadable(c) /\ c.ret.by = c.cno
        /\ \E s \in c.ret.srcs : s[2] > 0 /\ s[2] <= c.since

-----------------------------------------------------------------------------
(* LoadFrameHtml while frames disappear and the frame set is replaced *)

FrameZ == <<Lit("Fz")>>
Nope == Str("_nope")

\* Debug mode is on or off for good; the page default/h.tmpl refers to the frame
\* _main by file name or by bare name; the frame _main is under default, under
\* default and under z, or nowhere; the other frames are under default.
InitFrame ==
    /\ EngineInit
    /\ \E v \in {"", "TRUE"} : env = [APP_DEBUG |-> v, KKAPP_DEBUG |-> ""]
    /\ \E page \in {PageMain, PageMainBare}, where \in {"default", "both", "nowhere"} :
          files = [Layout(FrameFiles @@ (PathOf(DefaultDir, Hello) :> page)) EXCEPT
                      ![PathOf(DefaultDir, Str("_main"))] =
                          IF where = "nowhere" THEN NoFile ELSE FrameF,
                      ![PathOf(LangZh, Str("_main"))] =
                          IF where = "both" THEN FrameZ ELSE NoFile]

\* No caller is in a call: the setters of the configuration take no lock, so the
\* frame set is replaced only between loads.
Quiet == \A t \in Threads : ~InFlight(t)

ReplaceFrames == Quiet /\ SetStructTemplateFrames("default", <<Str("_main"), Nope>>)

EnvFrame ==
    \/ RemoveFile(PathOf(DefaultDir, Str("_main")))
    \/ WriteFile(PathOf(DefaultDir, Str("_main")), FrameF)
    \/ ReplaceFrames

LoadFrame(t) ==
    /\ calls < MaxCalls
    /\ Call(t, "default", "frame", Hello, LangZhTW)

StepFrame(t) ==
    \/ LockCache(t)
    \/ Evict(t)
    \/ Lookup(t)
    \/ LockFrame(t)
    \/ Validate(t)
    \/ Resolve(t)
    \/ ReadPage(t)
    \/ ParseFrames(t)
    \/ Commit(t)

NextFrame ==
    \/ \E t \in Threads : LoadFrame(t) \/ StepFrame(t)
    \/ EnvFrame

SpecFrame == InitFrame /\ [][NextFrame]_vars

\* No file {frame}.tmpl is anywhere in the file system.
NoFileFor(frame) ==
    \A p \in DOMAIN files : p[Len(p)] = frame \o <<".tmpl">> => files[p] = NoFile

\* Some frame of the engine's frame set has no file.
FrameWithoutFile(e) ==
    \E i \in 1..Len(structTemplateFrames[e]) : NoFileFor(structTemplateFrames[e][i])

\* C6 as stated: in every reachable state, a LoadFrameHtml made while a frame of
\* the frame set has no file returns ErrTemplateNotFound (calls during which
\* neither the files nor the frame set changed).
C6Claim ==
    \A t \in Threads :
        LET c == th[t] IN
        (c.pc = "done" /\ c.op = "frame" /\ c.since = Len(wlog)
            /\ FrameWithoutFile(c.e)) => c.err = ErrTemplateNotFound

\* C6, amended: the same as long as no frame validation has succeeded on the
\* engine, that is while its frameExist flag is false.
C6Unvalidated ==
    \A t \in Threads :
        LET c == th[t] IN
        (c.pc = "done" /\ c.op = "frame" /\ c.since = Len(wlog)
            /\ FrameWithoutFile(c.e) /\ ~frameExist[c.e]) => c.err = ErrTemplateNotFound

\* C6 happens: the page is there, a frame has no file, nothing was validated
\* yet, and LoadFrameHtml returned ErrTemplateNotFound.
C6Witness ==
    \E t \in Threads :
        LET c == th[t] IN
        /\ c.pc = "done" /\ c.op = "frame" /\ c.since = Len(wlog)
        /\ FrameWithoutFile(c.e) /\ ~frameExist[c.e]
        /\ getRealTemplatePath(c.e, c.name, c.lang) # <<>>
        /\ c.err = ErrTemplateNotFound

\* C9 as stated: the combined template LoadFrameHtml returns has the page as
\* its default execution target: executing it does not fail, and with the page
\* "page->{{template _main}}" and the frame "F" it gives "page->F".
C9Claim ==
    \A t \in Threads :
        LET c == th[t] IN
        (c.pc = "done" /\ c.op = "frame" /\ c.err = Nil) =>
            /\ Execute(c.ret) # ExecError
            /\ (c.ret.set[<<"h", ".tmpl">>] = PageMainBare
                  /\ c.ret.set[<<"_main", ".tmpl">>] = FrameF)
                  => Execute(c.ret) = <<Str("page->"), Str("F")>>

\* C9, amended: what LoadFrameHtml compiles on a miss is one template set of the
\* files [page] followed by every frame of the frame set resolved for the
\* requested language, each a member named by its base file name; the handle
\* has the page's path as its name and no body, so default execution fails and
\* the page is rendered by executing the member {name}.tmpl, a frame being
\* referred to by its file name (calls during which nothing changed).
C9Combined ==
    \A t \in Threads :
        LET c == th[t]
            page == getRealTemplatePath(c.e, c.name, c.lang)
            frames == structTemplateFrames[c.e]
            paths == <<page>> \o [i \in 1..Len(frames) |->
                                     getRealTemplatePath(c.e, frames[i], c.lang)]
            main == ReadFile(getRealTemplatePath(c.e, Str("_main"), c.lang))
        IN
        (c.pc = "done" /\ c.op = "frame" /\ c.err = Nil /\ c.ret.by = c.cno
            /\ c.since = Len(wlog)) =>
            /\ {s[1] : s \in c.ret.srcs} = {Canon(paths[i]) : i \in 1..Len(paths)}
            /\ DOMAIN c.ret.set = {Base(paths[i]) : i \in 1..Len(paths)}
            /\ \A i \in 1..Len(paths) : c.ret.set[Base(paths[i])] = ReadFile(paths[i])
            /\ c.ret.name = page
            /\ Execute(c.ret) = ExecError
            /\ ExecuteTemplate(c.ret, Base(page)) =
                  IF ReadFile(page) = PageMain
                    THEN <<Str("page->")>> \o ExecuteTemplate(c.ret, <<"_main", ".tmpl">>)
                  ELSE ExecError
            /\ ExecuteTemplate(c.ret, <<"_main", ".tmpl">>) = <<Str(main[1][2])>>

\* C9 happens: on a miss LoadFrameHtml compiled the page with its frames, the
\* frame _main taken from the base language of the requested z-T, and the
\* member h.tmpl renders the page with that frame.
C9Witness ==
    \E t \in Threads :
        LET c == th[t] IN
        /\ c.pc = "done" /\ c.op = "frame" /\ c.err = Nil /\ c.ret.by = c.cno
        /\ c.since = Len(wlog)
        /\ PathOf(LangZh, Str("_main")) \in {s[1] : s \in c.ret.srcs}
        /\ ExecuteTemplate(c.ret, <<"h", ".tmpl">>) = <<Str("page->"), Str("Fz")>>

-----------------------------------------------------------------------------
(* Two engines side by side: the default engine and one made by New() *)

\* A frame set of one frame
OnlyMain == <<Str("_main")>>

\* Debug mode is on or off for good; the frames and the page default/h.tmpl are
\* there under the root both engines start with.
InitIso ==
    /\ EngineInit
    /\ \E v \in {"", "TRUE"} : env = [APP_DEBUG |-> v, KKAPP_DEBUG |-> ""]
    /\ files = Layout(FrameFiles @@ (PathOf(DefaultDir, Hello) :> PageMain))

LoadIso(t) ==
    /\ calls < MaxCalls
    /\ \E e \in Engines, op \in {"html", "text", "frame"} : Call(t, e, op, Hello, LangZhTW)

\* The setters take no lock: they are called between loads.
SetRootIso == Quiet /\ \E e \in Engines : SetTemplateRootPath(e, RootQ)
SetFramesIso == Quiet /\ \E e \in Engines : SetStructTemplateFrames(e, OnlyMain)
SetFuncMapIso == Quiet /\ \E e \in Engines : SetFuncMap(e, FmX1)

StepIso(t) ==
    \/ LockCache(t)
    \/ Evict(t)
    \/ Lookup(t)
    \/ Resolve(t)
    \/ Read(t)
    \/ LockFrame(t)
    \/ Validate(t)
    \/ ReadPage(t)
    \/ ParseFrames(t)
    \/ Commit(t)

NextIso ==
    \/ \E t \in Threads : LoadIso(t) \/ StepIso(t)
    \/ SetRootIso
    \/ SetFramesIso
    \/ SetFuncMapIso

SpecIso == InitIso /\ [][NextIso]_vars

\* What an engine owns besides its locks: configuration, caches, frame flag
EngineState(e) ==
    <<templateRootPath[e], structTemplateFrames[e], funcMap[e],
      htmlTemplateMap[e], frameHtmlTemplateMap[e], textTemplateMap[e], frameExist[e]>>

\* The step is one of engine e: a caller in a load of e moved, or a setter of e
\* was called.
StepOf(e) ==
    \/ \E t \in Threads : th'[t] # th[t] /\ th'[t].e = e
    \/ /\ Len(wlog') > Len(wlog)
       /\ wlog'[Len(wlog')] \in {RootMark(e), FramesMark(e), FuncMapMark(e)}

\* C11: a step of a load or of a setter on one engine leaves the root path, the
\* frame set, the function overrides, the three caches and the frame flag of
\* every other engine as they were, the default engine (the package-level
\* variables) included.
C11Isolated ==
    [][\A e \in Engines : StepOf(e) =>
          \A f \in Engines \ {e} : EngineState(f)' = EngineState(f)]_vars

\* C11 happens: the engine made by New() validated its frames and stored a
\* composed template while the default engine, whose root path was replaced,
\* has validated and stored nothing.
C11Witness ==
    /\ frameExist["e1"] /\ frameHtmlTemplateMap["e1"] # <<>>
    /\ templateRootPath["e1"] = RootR /\ templateRootPath["default"] = RootQ
    /\ ~frameExist["default"] /\ frameHtmlTemplateMap["default"] = <<>>
    /\ \E t \in Threads : th[t].e = "default" /\ th[t].pc = "done"

-----------------------------------------------------------------------------
(* The frame flag over the life of an engine *)

\* Caller t leaves frameExistValidate of engine e in this step.
Validates(t, e) == th[t].pc = "validate" /\ th[t].e = e /\ th'[t].pc # "validate"

\* C12: the frame flag of an engine starts false and never goes from true to
\* false; it changes only in a validation that found a file for every frame; a
\* validation made while the flag is false probes the files: it fails with
\* ErrTemplateNotFound and leaves the flag false when a frame is missing, and
\* sets the flag when none is; a validation made while the flag is true passes
\* without a look at the files, in debug mode too.
C12Monotone ==
    /\ \A e \in Engines : ~frameExist[e]
    /\ [][\A e \in Engines :
            /\ frameExist[e] => frameExist'[e]
            /\ frameExist'[e] # frameExist[e] =>
                  \E t \in Threads : Validates(t, e) /\ MissingFrames(e) = {}
            /\ \A t \in Threads : Validates(t, e) =>
                  IF frameExist[e] \/ MissingFrames(e) = {}
                    THEN frameExist'[e] /\ th'[t].pc = "resolve"
                  ELSE /\ ~frameExist'[e]
                       /\ th'[t].pc = "done" /\ th'[t].err = ErrTemplateNotFound]_vars

\* C12 happens: a LoadFrameHtml failed in validation, the missing frame file was
\* written, the next LoadFrameHtml probed again and set the flag, and the file
\* was removed again with the flag staying true.
C12Witness ==
    \E t \in Threads :
        LET c == th[t] IN
        /\ c.pc = "done" /\ c.op = "frame" /\ c.err = Nil /\ AfterFailure(c)
        /\ frameExist[c.e] /\ MissingFrames(c.e) # {}

-----------------------------------------------------------------------------
(* The debug toggle under every setting of the two environment variables *)

\* Values of an environment variable: unset or empty, TRUE in two spellings,
\* two values that are not TRUE
EnvValues == {"", "true", "TRUE", "false", "1"}

InitToggle ==
    /\ EngineInit
    /\ \E a, k \in EnvValues : env = [APP_DEBUG |-> a, KKAPP_DEBUG |-> k]
    /\ files = Layout(PathOf(DefaultDir, Hello) :> V1)

LoadToggle(t) ==
    /\ calls < MaxCalls
    /\ Call(t, "default", "html", Hello, LangZhTW)

EnvToggle == \E k \in {"APP_DEBUG", "KKAPP_DEBUG"}, v \in EnvValues : Setenv(k, v)

NextToggle ==
    \/ \E t \in Threads : LoadToggle(t) \/ StepHtmlText(t)
    \/ EnvToggle

SpecToggle == InitToggle /\ [][NextToggle]_vars

\* The spellings of TRUE among EnvValues
SpelledTrue == {"true", "TRUE"}

\* The first non-empty value of (APP_DEBUG, KKAPP_DEBUG) is a spelling of TRUE.
FirstNonEmptyIsTrue ==
    IF env.APP_DEBUG # "" THEN env.APP_DEBUG \in SpelledTrue
    ELSE env.KKAPP_DEBUG \in SpelledTrue

\* Caller t enters a load in this step.
Starts(t) == th[t].pc \in {"idle", "done"} /\ th'[t].pc \notin {"idle", "done"}

\* C13: a load goes through the debug eviction exactly when, at the moment it
\* is entered, the first non-empty value of APP_DEBUG, KKAPP_DEBUG is TRUE in
\* some spelling; the variables are read at the entry of every load, and only
\* a load entered in debug mode ever evicts.
C13Toggle ==
    [][\A t \in Threads :
          /\ Starts(t) =>
                /\ th'[t].debug = FirstNonEmptyIsTrue
                /\ th'[t].pc = IF FirstNonEmptyIsTrue THEN "evictLock" ELSE "lookupLock"
          /\ th'[t].pc \in {"evictLock", "evict"} => th'[t].debug]_vars

\* C13 happens: APP_DEBUG is "false" and KKAPP_DEBUG is "TRUE", both as they
\* were set before the load, and the load entered goes straight to the lookup.
C13Witness ==
    /\ envSteps = 0 /\ calls = 1
    /\ env.APP_DEBUG = "false" /\ env.KKAPP_DEBUG = "TRUE"
    /\ \E t \in Threads : th[t].pc = "lookupLock" /\ ~th[t].debug

-----------------------------------------------------------------------------
(* Who holds which lock, and where *)

\* The cache locks caller t holds
CacheLocksHeld(t) ==
    {<<e, "htmlLocker">> : e \in {f \in Engines : htmlLocker[f] = t}}
        \cup {<<e, "textLocker">> : e \in {f \in Engines : textLocker[f] = t}}

\* Where a load resolves a path, reads a file or parses, the frame validation
\* included
OutsideCache == {"resolve", "read", "validateLock", "validate", "readPage", "parseFiles"}

BlockedBy(u, t) ==
    /\ th[u].pc \in {"evictLock", "lookupLock", "commitLock"}
    /\ LockOf(th[u].e, th[u].op) = t

\* C15 as stated: the three caches and the frame flag have a lock each, so a
\* caller waiting to enter the critical section of a cache is only ever kept
\* out by a caller inside the critical section of that same cache, and a caller
\* waiting to validate only by a caller that validates.
C15Claim ==
    \A t, u \in Threads :
        /\ BlockedBy(u, t) => (th[t].op = th[u].op /\ th[t].e = th[u].e)
        /\ (th[u].pc = "validateLock" /\ frameLocker[th[u].e] = t) =>
              (th[t].pc = "validate" /\ th[t].e = th[u].e)

\* The lock that guards the cache of a load
GuardOf(op) == IF op = "text" THEN "textLocker" ELSE "htmlLocker"

\* C15, amended: an engine has three locks: htmlLocker guards the markup cache
\* and the frame-composed cache, textLocker the text cache, frameLocker the
\* frame flag. A caller waiting for a cache is kept out only by a caller inside
\* a critical section under the same lock of the same engine, a caller waiting
\* to validate only by a caller that validates on the same engine.
C15ThreeLocks ==
    \A t, u \in Threads :
        /\ BlockedBy(u, t) =>
              /\ th[t].pc \in {"evict", "lookup", "commit"}
              /\ GuardOf(th[t].op) = GuardOf(th[u].op) /\ th[t].e = th[u].e
        /\ (th[u].pc = "validateLock" /\ frameLocker[th[u].e] = t) =>
              (th[t].pc = "validate" /\ th[t].e = th[u].e)

\* C15 happens: on one engine a caller is inside the critical section of the
\* text cache while another is inside that of the markup or the frame-composed
\* cache or validates the frames.
C15Witness ==
    \E t, u \in Threads :
        /\ th[t].e = th[u].e
        /\ th[t].op = "text" /\ th[t].pc \in {"evict", "lookup", "commit"}
        /\ th[u].op # "text" /\ th[u].pc \in {"evict", "lookup", "commit", "validate"}

-----------------------------------------------------------------------------
(* Loads of a page that is removed and written again *)

\* Debug mode is on or off for good; the frames and the page default/h.tmpl are
\* there.
InitGone ==
    /\ EngineInit
    /\ \E v \in {"", "TRUE"} : env = [APP_DEBUG |-> "", KKAPP_DEBUG |-> v]
    /\ files = Layout(FrameFiles @@ (PathOf(DefaultDir, Hello) :> PageMain))

EnvGone ==
    \/ RemoveFile(PathOf(DefaultDir, Hello))
    \/ WriteFile(PathOf(DefaultDir, Hello), PageMain)

LoadGone(t) ==
    /\ calls < MaxCalls
    /\ \E op \in {"html", "frame"} : Call(t, "default", op, Hello, LangZhTW)

NextGone ==
    \/ \E t \in Threads : LoadGone(t) \/ StepFrame(t) \/ Read(t)
    \/ EnvGone

SpecGone == InitGone /\ [][NextGone]_vars

\* Caller t returns ErrTemplateNotFound in this step.
ReturnsNotFound(t) ==
    th[t].pc # "done" /\ th'[t].pc = "done" /\ th'[t].err = ErrTemplateNotFound

\* The instance stored under the key of t's call when t has made its step
EntryThen(t) ==
    MapGet(CacheOf(th[t].e, th[t].op), MapName(th[t].name, th[t].lang))'.by

\* A step of caller t leaves every entry of every cache but that of its key.
OtherKeysKept(t) ==
    \A e \in Engines, op \in {"html", "frame", "text"} :
        \A k \in DOMAIN CacheOf(e, op) \cup DOMAIN CacheOf(e, op)' :
            (e # th'[t].e \/ op # th'[t].op \/ k # MapName(th'[t].name, th'[t].lang))
                => MapGet(CacheOf(e, op), k) = MapGet(CacheOf(e, op), k)'

\* C16 as stated: when a load returns ErrTemplateNotFound its cache is as it
\* was when the call began, in debug mode too: no step of the call touched
\* another key, and under its own key is what was there at the start (calls
\* that no other load of the key overlaps).
C16Claim ==
    [][\A t \in Threads :
          /\ th'[t] # th[t] => OtherKeysKept(t)
          /\ (ReturnsNotFound(t) /\ ~th'[t].overlap) => EntryThen(t) = th[t].had]_vars

\* C16, amended: the same with debug mode off; a load entered in debug mode
\* that returns ErrTemplateNotFound has removed the entry of its key, if there
\* was one, and added nothing.
C16NotFound ==
    [][\A t \in Threads :
          /\ th'[t] # th[t] => OtherKeysKept(t)
          /\ (ReturnsNotFound(t) /\ ~th'[t].overlap) =>
                EntryThen(t) = IF th[t].debug THEN 0 ELSE th[t].had]_vars

\* C16 happens: the page was loaded and stored, then removed, and a load
\* entered in debug mode returned ErrTemplateNotFound, the entry its key had
\* when it began being gone.
C16Witness ==
    \E t \in Threads :
        LET c == th[t] IN
        /\ c.pc = "done" /\ c.err = ErrTemplateNotFound /\ ~c.overlap
        /\ c.debug /\ c.had # 0
        /\ MapGet(CacheOf(c.e, c.op), MapName(c.name, c.lang)) = NoTmpl

-----------------------------------------------------------------------------
(* Loads of one key in flight together, debug mode on *)

\* The calls of t and u were in flight at the same time: the one entered second
\* was entered before the first returned.
Overlapped(t, u) ==
    \/ th[t].cno < th[u].cno /\ th[u].began < th[t].ended
    \/ th[u].cno < th[t].cno /\ th[t].began < th[u].ended

ReturnsTemplate(t) == th[t].pc # "done" /\ th'[t].pc = "done" /\ th'[t].err = Nil

-----------------------------------------------------------------------------
(* Path resolution for a lang without "-" *)

\* C18 as stated: for a lang without "-", getRealTemplatePath returns the
\* exact-language path if lang is not empty and that file exists, else the
\* default path if it exists, else the empty path; the file directly under the
\* root, {root}/{name}.tmpl, is never what it returns.
C18Claim ==
    (probe.fn = "getRealTemplatePath" /\ Len(Split(probe.lang, "-")) = 1) =>
        LET root == templateRootPath[probe.e]
            exact == TmplPath(root, probe.lang, probe.name)
            default == DefaultTmplPath(root, probe.name)
        IN  /\ probe.path =
                  IF probe.lang # <<>> /\ StatExists(exact) THEN exact
                  ELSE IF StatExists(default) THEN default
                  ELSE <<>>
            /\ Canon(probe.path) # Canon(root \o <<"/">> \o probe.name \o <<".tmpl">>)

-----------------------------------------------------------------------------
(* Frame validation when a frame file is not under default *)

\* Debug mode is on or off for good; the page default/h.tmpl and four frames
\* are under default; the frame _main is under default or directly under the
\* root.
InitRootFrame ==
    /\ EngineInit
    /\ \E v \in {"", "TRUE"} : env = [APP_DEBUG |-> v, KKAPP_DEBUG |-> ""]
    /\ \E d \in {DefaultDir, <<>>} :
          files = [Layout(FrameFiles @@ (PathOf(DefaultDir, Hello) :> PageMain)) EXCEPT
                      ![PathOf(DefaultDir, Str("_main"))] = NoFile,
                      ![PathOf(d, Str("_main"))] = FrameF]

EnvRootFrame ==
    \/ WriteFile(PathOf(DefaultDir, Str("_main")), FrameF)
    \/ RemoveFile(PathOf(<<>>, Str("_main")))

LoadRootFrame(t) ==
    /\ calls < MaxCalls
    /\ \E lang \in {LangZhTW, LangEmpty} : Call(t, "default", "frame", Hello, lang)

NextRootFrame ==
    \/ \E t \in Threads : LoadRootFrame(t) \/ StepFrame(t)
    \/ EnvRootFrame

SpecRootFrame == InitRootFrame /\ [][NextRootFrame]_vars

\* C19 as stated: frame validation passes only if {root}/default/{frame}.tmpl
\* is there for every frame of the frame set, whatever the lang of the load;
\* hence, when it has passed and no file and no setting has changed, every
\* frame resolves to a path for every lang.
C19Claim ==
    \A e \in Engines :
        (frameExist[e] /\ wlog = <<>>) =>
            \A i \in 1..Len(structTemplateFrames[e]) :
                LET frame == structTemplateFrames[e][i] IN
                /\ StatExists(DefaultTmplPath(templateRootPath[e], frame))
                /\ \A lang \in ResolveLangs : getRealTemplatePath(e, frame, lang) # <<>>

-----------------------------------------------------------------------------
(* What a frame validation reports *)

\* The frames of the frame set, by place, that the validation has no file for:
\* none at {root}/default/{frame}.tmpl, none at {root}/{frame}.tmpl
Unfound(e) ==
    LET frames == structTemplateFrames[e]
        root == templateRootPath[e]
    IN {i \in 1..Len(frames) :
           /\ ~StatExists(DefaultTmplPath(root, frames[i]))
           /\ ~StatExists(root \o <<"/">> \o frames[i] \o <<".tmpl">>)}

\* C20 as stated: a validation that fails reports every missing frame: with k
\* frames without a file it logs exactly k diagnostics, one for each of them
\* naming its file, and leaves the flag false.
C20Claim ==
    [][\A t \in Threads, e \in Engines :
          (Validates(t, e) /\ ~frameExist[e] /\ Unfound(e) # {}) =>
              LET diag == th'[t].diag
                  frames == structTemplateFrames[e]
              IN  /\ ~frameExist'[e]
                  /\ Len(diag) = Cardinality(Unfound(e))
                  /\ \A i \in Unfound(e) :
                        \E j \in 1..Len(diag) : Base(diag[j]) = frames[i] \o <<".tmpl">>]_vars

\* C20, amended: a validation that fails stops at the first frame, in the order
\* of the frame set, it finds no file for: it logs one diagnostic, naming
\* {root}/{frame}.tmpl of that frame, and leaves the flag false; a validation
\* that passes logs nothing.
C20FirstMissing ==
    [][\A t \in Threads, e \in Engines :
          Validates(t, e) =>
              LET diag == th'[t].diag
                  frames == structTemplateFrames[e]
                  first == CHOOSE i \in Unfound(e) : \A k \in Unfound(e) : i <= k
              IN  IF frameExist[e] \/ Unfound(e) = {} THEN diag = <<>>
                  ELSE /\ ~frameExist'[e]
                       /\ diag = <<templateRootPath[e] \o <<"/">> \o frames[first]
                                       \o <<".tmpl">>>>]_vars

\* C20 happens: two frames of the frame set had no file and the validation of
\* a LoadFrameHtml failed with one diagnostic, for the first of them.
C20Witness ==
    \E t \in Threads :
        LET c == th[t] IN
        /\ c.pc = "done" /\ c.op = "frame" /\ c.err = ErrTemplateNotFound
        /\ c.since = Len(wlog) /\ ~frameExist[c.e]
        /\ Cardinality(Unfound(c.e)) = 2
        /\ c.diag = <<<<"R", "/", "_main", ".tmpl">>>>

-----------------------------------------------------------------------------
(* Loads on engines that were not properly constructed *)

InvalidEngines == {NilEngine, "zero", "noFrameLock", "noFlag"}

\* The engines that exist as a struct: the two proper ones and the improper ones
\* that are not the nil pointer
Built == Engines \cup (InvalidEngines \ {NilEngine})

\* The loads tried: every operation on the nil engine and on &Engine{},
\* LoadHtml and LoadFrameHtml on the engine without frame lock, LoadFrameHtml
\* on the engine without frame flag and on the default engine.
LoadsInvalid ==
    ({NilEngine, "zero"} \X {"html", "text", "frame"})
        \cup {<<"noFrameLock", "html">>, <<"noFrameLock", "frame">>,
              <<"noFlag", "frame">>, <<"default", "frame">>}

\* &Engine{} has the zero value in every field; the engines built field by
\* field have what New() gives them, except the field left nil (its value here
\* is never read). Debug mode is on or off for good; the frames and the page
\* default/h.tmpl are there.
InitInvalid ==
    /\ templateRootPath = [e \in Built |-> IF e = "zero" THEN <<>> ELSE RootR]
    /\ structTemplateFrames = [e \in Built |-> IF e = "zero" THEN <<>> ELSE DefaultFrames]
    /\ funcMap = [e \in Built |-> <<>>]
    /\ htmlTemplateMap = [e \in Built |-> <<>>]
    /\ frameHtmlTemplateMap = [e \in Built |-> <<>>]
    /\ textTemplateMap = [e \in Built |-> <<>>]
    /\ htmlLocker = [e \in Built |-> Free]
    /\ textLocker = [e \in Built |-> Free]
    /\ frameLocker = [e \in Built |-> Free]
    /\ frameExist = [e \in Built |-> FALSE]
    /\ th = [t \in Threads |-> Idle]
    /\ calls = 0
    /\ envSteps = 0
    /\ hist = <<>>
    /\ probe = NoProbe
    /\ wlog = <<>>
    /\ \E v \in {"", "TRUE"} : env = [APP_DEBUG |-> v, KKAPP_DEBUG |-> ""]
    /\ files = Layout(FrameFiles @@ (PathOf(DefaultDir, Hello) :> PageMain))

LoadInvalid(t) ==
    /\ calls < MaxCalls
    /\ \E l \in LoadsInvalid :
          \/ CallInvalid(t, l[1], l[2], Hello, LangZhTW)
          \/ Call(t, l[1], l[2], Hello, LangZhTW)

StepInvalid(t) ==
    \/ StepIso(t)
    \/ ValidateInvalid(t)

NextInvalid == \E t \in Threads : LoadInvalid(t) \/ StepInvalid(t)

SpecInvalid == InitInvalid /\ [][NextInvalid]_vars

\* The engine lacks what the operation works with: it is nil, or the cache map
\* or the lock of the operation is nil, or, for LoadFrameHtml, the frame lock or
\* the frame flag is.
Improper(e, op) == InvalidEngine(e, op) \/ (op = "frame" /\ InvalidFrameState(e))

\* Caller t takes a step of its call: it enters one or moves on in one.
Moves(t) == th'[t].pc # th[t].pc \/ th'[t].cno # th[t].cno

\* C21 as stated: every load called on an improperly constructed engine returns
\* the "invalid engine" error at once, without a template, and changes nothing of
\* any engine.
C21Claim ==
    [][\A t \in Threads :
          (Moves(t) /\ Improper(th'[t].e, th'[t].op)) =>
              /\ th'[t].pc = "done"
              /\ th'[t].ret = NoTmpl
              /\ th'[t].err = ErrInvalidEngine
              /\ ErrInvalidEngine # ErrTemplateNotFound
              /\ UNCHANGED engineVars]_vars

-----------------------------------------------------------------------------
(* Every call returns: the loads under fair scheduling *)

\* Debug mode is on or off and is switched while calls run; the page
\* default/h.tmpl is well formed, does not parse, or is not there; the frame
\* _main is there or not.
InitLive ==
    /\ EngineInit
    /\ \E v \in {"", "TRUE"} : env = [APP_DEBUG |-> v, KKAPP_DEBUG |-> ""]
    /\ \E page \in {PageMain, Broken, NoFile}, main \in {FrameF, NoFile} :
          files = [Layout(FrameFiles @@ (PathOf(DefaultDir, Hello) :> page)) EXCEPT
                      ![PathOf(DefaultDir, Str("_main"))] = main]

EnvLive == \E v \in {"", "TRUE"} : Setenv("APP_DEBUG", v)

LoadLive(t) ==
    /\ calls < MaxCalls
    /\ \E op \in {"html", "text", "frame"} : Call(t, "default", op, Hello, LangZhTW)

NextLive ==
    \/ \E t \in Threads : LoadLive(t) \/ StepIso(t)
    \/ EnvLive

\* Every lock caller t holds, the frame lock included
LocksHeld(t) ==
    CacheLocksHeld(t) \cup {<<e, "frameLocker">> : e \in {f \in Engines : frameLocker[f] = t}}

\* Caller t is in a call and its next step is not the taking of a lock that
\* another caller holds.
CanStep(t) ==
    LET c == th[t] IN
    /\ InFlight(t)
    /\ c.pc \in {"evictLock", "lookupLock", "commitLock"} => LockOf(c.e, c.op) = Free
    /\ c.pc = "validateLock" => frameLocker[c.e] = Free

\* Caller t takes the next step of its call: a step of StepIso(t)
Advances(t) == th'[t].pc # th[t].pc /\ th'[t].cno = th[t].cno

\* The scheduler runs every goroutine that can run: a caller that stays able to
\* take the next step of its call takes it. This is WF_vars(StepIso(t)) written
\* out, ENABLED <<StepIso(t)>>_vars being CanStep(t) and <<StepIso(t)>>_vars
\* being <<Advances(t)>>_vars. Nothing makes a caller start a call or the
\* environment change.
Fair(t) == []<>(~CanStep(t)) \/ []<><<Advances(t)>>_vars

SpecLive == InitLive /\ [][NextLive]_vars /\ \A t \in Threads : Fair(t)

\* While a call is running some caller can take a step; no caller holds two
\* locks; a caller that is not in a call holds none.
LockDiscipline ==
    /\ (\E t \in Threads : InFlight(t)) =>
           \E t \in Threads : CanStep(t)
    /\ \A t \in Threads :
          /\ Cardinality(LocksHeld(t)) <= 1
          /\ ~InFlight(t) => LocksHeld(t) = {}

\* C22: under weak fairness of every caller each load call that was started
\* returns, whatever the mix of debug and non-debug calls; no state is reached
\* in which calls are running and none can move, no caller ever holds two locks,
\* and a caller holds no lock once its call has returned, whichever return it
\* took.
C22Returns ==
    /\ []LockDiscipline
    /\ \A t \in Threads : InFlight(t) ~> (th[t].pc = "done")

\* C22 happens: a LoadFrameHtml that ran while another load of the key ran has
\* returned an error, every caller has returned, and every lock is free.
C22Witness ==
    /\ \A t \in Threads : th[t].pc = "done" /\ LocksHeld(t) = {}
    /\ \E t \in Threads :
          th[t].op = "frame" /\ th[t].overlap /\ th[t].err # Nil
    /\ \E t \in Threads : th[t].debug
    /\ \E t \in Threads : ~th[t].debug
    /\ \A e \in Engines : htmlLocker[e] = Free /\ textLocker[e] = Free /\ frameLocker[e] = Free

-----------------------------------------------------------------------------
(* Every access to a cache map and to the frame flag is under its lock *)

\* What the next step of caller t reads or writes of the shared maps and flags:
\* the cache of its load in the eviction (delete), in the lookup (read) and in
\* the commit (read, then write), the frame flag in the validation (read, then
\* write). No other statement of a load names a map or the flag.
Touches(t) ==
    LET c == th[t] IN
    CASE c.pc \in {"evict", "lookup", "commit"} -> {<<c.e, MapField(c.op)>>}
      [] c.pc = "validate" -> {<<c.e, "frameExist">>}
      [] OTHER -> {}

\* The lock that guards a cache map or the frame flag
LockFor(field) ==
    CASE field \in {"htmlTemplateMap", "frameHtmlTemplateMap"} -> "htmlLocker"
      [] field = "textTemplateMap" -> "textLocker"
      [] field = "frameExist" -> "frameLocker"

\* Caller t took the step, from a statement that writes the field of engine e
Wrote(t, e, field) ==
    /\ Advances(t)
    /\ <<e, field>> \in Touches(t)
    /\ <<e, LockFor(field)>> \in LocksHeld(t)

\* C23: a caller that is about to read, write or delete in a cache map or to
\* read or set the frame flag holds the lock that guards it, so no two callers
\* are ever at an access to the same map or flag, and a map or a flag changes
\* only in a step of a caller that holds its lock.
C23Guarded ==
    /\ [](\A t \in Threads :
            /\ \A x \in Touches(t) : <<x[1], LockFor(x[2])>> \in LocksHeld(t)
            /\ \A u \in Threads \ {t} : Touches(t) \cap Touches(u) = {})
    /\ [][\A e \in Engines :
            /\ htmlTemplateMap'[e] # htmlTemplateMap[e] =>
                  \E t \in Threads : Wrote(t, e, "htmlTemplateMap")
            /\ frameHtmlTemplateMap'[e] # frameHtmlTemplateMap[e] =>
                  \E t \in Threads : Wrote(t, e, "frameHtmlTemplateMap")
            /\ textTemplateMap'[e] # textTemplateMap[e] =>
                  \E t \in Threads : Wrote(t, e, "textTemplateMap")
            /\ frameExist'[e] # frameExist[e] =>
                  \E t \in Threads : Wrote(t, e, "frameExist")]_vars

\* C23 happens: a caller is at the commit inside the critical section of the
\* markup cache of an engine while another caller waits for the same lock to
\* get at the frame-composed cache of that engine, and the frame flag of the
\* engine was set by a validation.
C23Witness ==
    \E t, u \in Threads :
        /\ th[t].pc = "commit" /\ th[t].op = "html"
        /\ th[u].pc \in {"evictLock", "lookupLock", "commitLock"}
        /\ th[u].op = "frame" /\ th[u].e = th[t].e
        /\ frameExist[th[t].e]

-----------------------------------------------------------------------------
(* What a load returns *)

\* C24: a load that has returned has returned a template and no error, or no
\* template and an error, whatever the other callers did meanwhile, an
\* eviction of its key included.
C24OneOfTwo ==
    \A t \in Threads :
        LET c == th[t] IN
        c.pc = "done" =>
            \/ c.ret # NoTmpl /\ c.ret.by > 0 /\ c.err = Nil
            \/ c.ret = NoTmpl /\ c.err # Nil

\* C24 happens: a load has returned a template, and a load of the same key that
\* overlapped it, entered in debug mode and still running, has deleted the entry
\* meanwhile.
C24Witness ==
    \E t, u \in Threads :
        /\ th[t].pc = "done" /\ th[t].ret # NoTmpl /\ th[t].err = Nil
        /\ InFlight(u) /\ th[u].debug /\ SameKey(th[t], th[u]) /\ th[u].began < th[t].ended
        /\ MapGet(CacheOf(th[t].e, th[t].op), MapName(th[t].name, th[t].lang)) = NoTmpl

-----------------------------------------------------------------------------
(* Debug mode on throughout while the page file is rewritten *)

MaxCallsDebug == 3

\* APP_DEBUG is TRUE and stays so; default/h.tmpl is there.
InitDebug ==
    /\ EngineInit
    /\ env = [APP_DEBUG |-> "TRUE", KKAPP_DEBUG |-> ""]
    /\ files = Layout(PathOf(DefaultDir, Hello) :> V1)

EnvDebug == \E v \in {V1, V2} : WriteFile(PathOf(DefaultDir, Hello), v)

LoadDebug(t) ==
    /\ calls < MaxCallsDebug
    /\ \E c \in Loads : Call(t, "default", c[1], c[2], c[3])

NextDebug ==
    \/ \E t \in Threads : LoadDebug(t) \/ StepHtmlText(t)
    \/ EnvDebug

SpecDebug == InitDebug /\ [][NextDebug]_vars

\* C25 as stated: with debug mode on throughout, the instance a load returns
\* was compiled from content read after the call started, never from content
\* that had been replaced in the file before the call began.
C25Claim ==
    \A t \in Threads :
        LET c == th[t] IN
        (c.pc = "done" /\ c.err = Nil) => (c.debug /\ Fresh(c))

\* C25, amended: with debug mode on throughout, the instance a load returns was
\* stored after the call started: it is not the instance that was cached when
\* the call began and not one an earlier call had returned before. If no other
\* load of the key overlaps the call, the instance is the one the call compiled
\* itself, from content that was in the file after the call started; a load that
\* overlaps another may return the other's instance, compiled from content
\* replaced before the load began.
C25StoredSince ==
    \A t \in Threads :
        LET c == th[t] IN
        (c.pc = "done" /\ c.err = Nil) =>
            /\ c.debug
            /\ c.ret.by # c.had /\ c.ret.by \notin Prior(c)
            /\ ~c.overlap => (c.ret.by = c.cno /\ Fresh(c))

\* C25 happens: an entry was cached when the load began, the load evicted it,
\* and returned the instance another load of the key, running at the same time,
\* had compiled from content that was replaced before this load began.
C25Witness ==
    \E t \in Threads :
        LET c == th[t] IN
        /\ c.pc = "done" /\ c.err = Nil /\ c.debug
        /\ c.had # 0 /\ c.overlap
        /\ c.ret.by # c.cno /\ ~Fresh(c)

====
